---- MODULE Spec2Model ----
(***************************************************************************)
(* A model of updater.py, the downloader and patcher that mirrors the      *)
(* Photopea web application to a local tree.                               *)
(*                                                                         *)
(* Text is modelled as a sequence of tokens.  A token is a substring the   *)
(* program treats as a unit: a patch rule's find string, a versioned file  *)
(* name a regular expression matches, one declaration of the database     *)
(* file, one 4096-byte chunk of a body.  A path is a sequence of tokens    *)
(* too (relative to LOCAL_ROOT locally, to REMOTE_WEBSITE remotely).  The  *)
(* local tree is a function from the paths that exist to their content.    *)
(***************************************************************************)
EXTENDS Integers, Sequences, FiniteSets, TLC

VARIABLES
    site,            \* what the remote website serves: [index, dbs, tpls]
    disk,            \* the local tree: existing path -> content
    pc,              \* main's position
    run,             \* number of program runs started
    args,            \* [fonts, templates]: this run's command-line flags
    faults,          \* environment faults injected so far
    urls_to_download,\* download_core_files: the batch, a sequence of [remote, local]
    idx,             \* position in the sequential batch under way
    dynamic_paths,   \* download_core_files: name -> discovered path
    db,              \* parse_db's mapping: variable name -> parsed value
    result,          \* this run's core batch: item index -> outcome of its fetch
    last,            \* the file-writing call just made, with the file as it was before
    phases,          \* this run's phases in the order they started
    todo,            \* fonts / templates still to fetch in the phase under way
    running,         \* update_fonts: the font tasks a pool worker is executing
    templates_db,    \* update_templates: the local paths the manifest references
    before,          \* the template files on disk when update_templates started
    removed,         \* the files update_templates removed
    rm_failed,       \* the files whose os.remove raised OSError
    tpl_result,      \* update_templates: template index -> outcome of its fetch
    index_result,    \* this run's first fetch of index.html: its outcome
    passes,          \* number of apply_patches passes made in a row over the tree
    snap,            \* the tree as the first apply_patches pass left it
    decoded,         \* decompress_font_list: the records a decoding yielded
    tasks,           \* update_fonts: fonts_to_download, one pool task per record
    attempts,        \* update_fonts: task index -> times a worker started the task
    font_result,     \* update_fonts: task index -> what future.result() gave
    requested,       \* the local font paths the font phase under way sent a GET for
    fonts_before     \* the font files on disk when the font phase under way started

vars == <<site, disk, pc, run, args, faults, urls_to_download, idx, dynamic_paths,
          db, result, last, phases, todo, running, templates_db, before, removed,
          rm_failed, tpl_result, index_result, passes, snap,
          decoded, tasks, attempts, font_result, requested, fonts_before>>

\* ------------------------------------------------------------------ bounds

\* Program runs in one behaviour (a re-run works on the tree the earlier run left).
MaxRuns == 2
\* Environment faults (failed fetches, failed deletions) in one behaviour.
MaxFaults == 1
\* Length of a patch target's initial content, in tokens, where it is arbitrary.
MaxContentLen == 2
\* apply_patches passes made in a row over one tree.
MaxPasses == 2
\* Compact entries in a font list, where the list is arbitrary.
MaxEntries == 2
\* Fonts to download beyond the number of pool workers.
MaxExtraFonts == 1

\* ------------------------------------------------------------------ constants

MAX_FONT_WORKERS == 16

\* ------------------------------------------------------------------ sequences

Range(s) == {s[i] : i \in 1..Len(s)}

Prefix(s, n) == SubSeq(s, 1, n)

\* f occurs in s at position i
OccursAt(s, f, i) == /\ i + Len(f) - 1 <= Len(s)
                     /\ \A k \in 1..Len(f) : s[i + k - 1] = f[k]

\* Python's `find in content`
Contains(s, f) == \E i \in 1..Len(s) : OccursAt(s, f, i)

\* Python's content.replace(find, replace): every non-overlapping occurrence,
\* left to right (find is never empty here)
RECURSIVE str_replace(_, _, _)
str_replace(s, f, r) ==
    IF s = <<>> THEN <<>>
    ELSE IF OccursAt(s, f, 1)
         THEN r \o str_replace(SubSeq(s, Len(f) + 1, Len(s)), f, r)
         ELSE <<s[1]>> \o str_replace(Tail(s), f, r)

\* all sequences over S of length at most n
RECURSIVE SeqsUpTo(_, _)
SeqsUpTo(S, n) ==
    IF n = 0 THEN {<<>>}
    ELSE LET shorter == SeqsUpTo(S, n - 1)
         IN  shorter \cup {Append(s, x) : s \in shorter, x \in S}

\* the tree d with path p holding content c / without path p
WriteFile(d, p, c) == [q \in DOMAIN d \cup {p} |-> IF q = p THEN c ELSE d[q]]

RemoveFile(d, p) == [q \in DOMAIN d \ {p} |-> d[q]]

EmptyTree == [q \in {} |-> <<>>]

\* ------------------------------------------------------------------ paths and remote content

INDEX == <<"index.html">>
TPLS == <<"papi/tpls.json">>
DROPBOX == <<"code/storages/dropboxStorage.html">>
FONT_MANIFEST == <<"font-manifest.json">>

Item(remote_path, local_name) == [remote |-> remote_path, local |-> local_name]

\* download_core_files' fixed list.  Kept: the three entries a later phase reads
\* or patches, and the [remote, local] pair; the fifteen other entries are plain
\* files no phase reads and behave as the pair's local file does.
initial_urls ==
    << Item(INDEX, INDEX), Item(TPLS, TPLS), Item(DROPBOX, DROPBOX),
       Item(<<"templates/?type=0&rsrc=">>, <<"templates/index.html">>) >>

\* regex_patterns, in the dictionary's order, and the tokens each pattern matches
regex_names == <<"style", "ext", "dbs", "pp">>

regex_matches(name) ==
    CASE name = "style" -> {"style/all7.css"}
      [] name = "ext"   -> {"code/ext/ext7.js"}
      [] name = "dbs"   -> {"code/dbs/DBS7.js"}
      [] name = "pp"    -> {"code/pp/pp7.js"}

\* re.search(pattern, index_content): the first match in document order, or none
HasMatch(name, content) == \E i \in 1..Len(content) : content[i] \in regex_matches(name)

re_search(name, content) ==
    LET i == CHOOSE j \in 1..Len(content) :
                 /\ content[j] \in regex_matches(name)
                 /\ \A k \in 1..(j - 1) : content[k] \notin regex_matches(name)
    IN  <<content[i]>>

\* The strings apply_patches looks for.
PORT_CHECK == "\"'$!|\"))"
GA == "//www.google-analytics.com/analytics.js"
GTM == "//www.googletagmanager.com"
MIRROR == "\"mirror.php?url=\"+encodeURIComponent"
REDIRECT == "var redirectUri = window.location.href;"
FB_CONNECT == "https://connect.facebook.net"
FB_WWW == "https://www.facebook.com"
RSRC == "\"&rsrc=\""
TPL_QUERY == "\"templates/?type=\""
BACKBLAZE == "\"https://f000.backblazeb2.com/file/\""
YY == "(\"~yy\")"

\* What the website serves.
FullIndex == <<"style/all7.css", "code/ext/ext7.js", "code/dbs/DBS7.js", "code/pp/pp7.js",
               GA, GTM, FB_CONNECT, FB_WWW>>

RemotePP == <<PORT_CHECK, MIRROR, RSRC, TPL_QUERY, BACKBLAZE, YY>>

RemoteDropbox == <<REDIRECT>>

\* index.html: complete, or lacking the match of one pattern
IndexDocs ==
    {FullIndex} \cup
    {SelectSeq(FullIndex, LAMBDA t : t \notin regex_matches(name)) : name \in {"style", "dbs", "pp"}}

\* The database file: a sequence of `var NAME = {...}` declarations, each with a
\* body json.loads accepts or not.
DbsDocs ==
    { <<"var FNTS = {ok}", "var OTHER = {ok}">>,
      <<"var OTHER = {ok}">>,
      <<"var FNTS = {bad}", "var OTHER = {ok}">>,
      <<"var FNTS = {bad}">> }

\* papi/tpls.json: an object with a list of template descriptors, an object
\* without the list, or text that is not JSON.  A descriptor token names the
\* template file (tpl_data[3]) and its source attribution (tpl_data[4]).
TplsDocs ==
    { <<"{\"list\":[", "a.psd|imgur.com", "b.psd|", "]}">>,
      <<"{\"list\":[", "a.psd|imgur.com", "]}">>,
      <<"{\"other\":[", "]}">>,
      <<"<html>">> }

\* What the website can serve: the complete site, or the site with one of the
\* three documents replaced by a variant.
BaseSite == [index |-> FullIndex,
             dbs   |-> <<"var FNTS = {ok}", "var OTHER = {ok}">>,
             tpls  |-> <<"{\"list\":[", "a.psd|imgur.com", "b.psd|", "]}">>]

Sites == {[BaseSite EXCEPT !.index = d] : d \in IndexDocs}
    \cup {[BaseSite EXCEPT !.dbs = d] : d \in DbsDocs}
    \cup {[BaseSite EXCEPT !.tpls = d] : d \in TplsDocs}

\* the body the website serves for a remote path
RemoteBody(st, remote_path) ==
    CASE remote_path = INDEX -> st.index
      [] remote_path = TPLS -> st.tpls
      [] remote_path = DROPBOX -> RemoteDropbox
      [] remote_path = <<"code/dbs/DBS7.js">> -> st.dbs
      [] remote_path = <<"code/pp/pp7.js">> -> RemotePP
      [] OTHER -> <<"chunk">>

\* ------------------------------------------------------------------ download_file

\* What one GET can do: answer 200 with the whole body ("ok"); answer another
\* status ("http"); fail in requests.get ("transport"); answer 200 and break
\* after n chunks of the body ("midstream"); answer with a Content-Length that
\* is no integer ("badlen"); and the local directory or file may refuse to be
\* created ("oserror").
Outcome(kind, n) == [kind |-> kind, n |-> n]

Outcomes(body) ==
    {Outcome(k, 0) : k \in {"ok", "http", "transport", "badlen", "oserror"}}
    \cup {Outcome("midstream", n) : n \in 0..(Len(body) - 1)}

\* the fetch failed without an exception leaving download_file
SoftFailures == {"http", "transport", "midstream"}

\* an exception download_file does not catch: int() of the header raises
\* ValueError, makedirs / open raise OSError; only RequestException is caught
Uncaught == {"badlen", "oserror"}

\* download_file without its except clause: every failed fetch raises
download_file_raises_uncaught(o) == o.kind # "ok"

download_file_raises(o) == o.kind \in Uncaught

\* the tree after download_file(remote_url, local_path)
download_file(d, local_path, body, o) ==
    CASE o.kind = "ok" -> WriteFile(d, local_path, body)
      [] o.kind = "midstream" -> WriteFile(d, local_path, Prefix(body, o.n))
      [] OTHER -> d

\* ------------------------------------------------------------------ patching

Rule(file_path, find, replace) == [file |-> file_path, find |-> find, replace |-> replace]

\* the file opened for writing before the find string is looked for
find_and_replace_opens_first(d, file_path, find, replace) ==
    IF file_path \notin DOMAIN d THEN d
    ELSE IF ~Contains(d[file_path], find) THEN WriteFile(d, file_path, <<>>)
    ELSE WriteFile(d, file_path, str_replace(d[file_path], find, replace))

\* the tree after find_and_replace(file_path, find, replace)
find_and_replace(d, file_path, find, replace) ==
    IF file_path \notin DOMAIN d THEN d
    ELSE IF ~Contains(d[file_path], find) THEN d
    ELSE WriteFile(d, file_path, str_replace(d[file_path], find, replace))

\* apply_patches' calls of find_and_replace, in order
PatchRules(pp_path) ==
    << Rule(pp_path, <<PORT_CHECK>>, <<PORT_CHECK, "||true">>),
       Rule(INDEX, <<GA>>, <<>>),
       Rule(INDEX, <<GTM>>, <<"#">>),
       Rule(pp_path, <<MIRROR>>, <<>>),
       Rule(DROPBOX, <<REDIRECT>>,
            <<"var redirectUri = \"https://www.photopea.com/code/storages/dropboxStorage.html\";">>),
       Rule(INDEX, <<FB_CONNECT>>, <<>>),
       Rule(INDEX, <<FB_WWW>>, <<>>),
       Rule(pp_path, <<RSRC>>, <<"\"\"">>),
       Rule(pp_path, <<TPL_QUERY>>, <<"\"templates/index.html?type=\"">>),
       Rule(pp_path, <<BACKBLAZE>>, <<"\"templates/file/\"">>),
       Rule(pp_path, <<YY>>, <<YY, "||true">>) >>

RECURSIVE ApplyRules(_, _, _)
ApplyRules(d, rules, i) ==
    IF i > Len(rules) THEN d
    ELSE ApplyRules(find_and_replace(d, rules[i].file, rules[i].find, rules[i].replace),
                    rules, i + 1)

\* the tree after apply_patches(pp_path)
apply_patches(d, pp_path) ==
    IF pp_path = <<>> THEN d
    ELSE ApplyRules(d, PatchRules(pp_path), 1)

\* the files apply_patches rewrites
PatchTargets(pp_path) == {pp_path, INDEX, DROPBOX}

\* ------------------------------------------------------------------ the database and the fonts

\* A compact font entry: the six comma-separated fields, each a string.
Entry(ff, fsf, psn, flg, cat, url) ==
    [ff |-> ff, fsf |-> fsf, psn |-> psn, flg |-> flg, cat |-> cat, url |-> url]

\* FNTS["list"] as the website serves it
FontList ==
    << Entry(<<"DejaVu", " ", "Sans">>, <<"Bold">>, <<>>, <<"0">>, <<"0">>, <<>>),
       Entry(<<"Open", " ", "Sans">>, <<>>, <<"a">>, <<>>, <<"1">>, <<"a">>) >>

\* one declaration of the database file: the variable and json.loads of its body
DeclName(decl) ==
    CASE decl \in {"var FNTS = {ok}", "var FNTS = {bad}"} -> "FNTS"
      [] OTHER -> "OTHER"

DeclParses(decl) == decl \in {"var FNTS = {ok}", "var OTHER = {ok}"}

DeclValue(decl) ==
    IF DeclName(decl) = "FNTS" THEN [list |-> FontList] ELSE [list |-> <<>>]

\* parse_db: None when the file cannot be read, else the mapping of the
\* declarations whose body parses
parse_db_fails(d, dbs_path) == dbs_path \notin DOMAIN d

parse_db(d, dbs_path) ==
    LET decls == {d[dbs_path][i] : i \in 1..Len(d[dbs_path])}
        good == {decl \in decls : DeclParses(decl)}
    IN  [name \in {DeclName(decl) : decl \in good} |->
            DeclValue(CHOOSE decl \in good : DeclName(decl) = name)]

NoDb == [name \in {} |-> [list |-> <<>>]]

\* main's `if not db`: None and the empty mapping are both falsy
db_is_falsy(failed, mapping) == failed \/ DOMAIN mapping = {}

\* `not db or "FNTS" not in db`, for a db main let through
lacks_fonts(mapping) == DOMAIN mapping = {} \/ "FNTS" \notin DOMAIN mapping

\* int(flg), int(cat)
IntOf(s) == CASE s = <<"0">> -> 0 [] s = <<"1">> -> 1 [] s = <<"2">> -> 2

RemoveSpaces(s) == SelectSeq(s, LAMBDA t : t # " ")

\* `x = x or prev_x`: an empty field takes the previous record's value
Or(x, prev) == IF x = <<>> THEN prev ELSE x

\* the postScriptName written with its spaces left in
psn_of_keeps_spaces(e_psn, ff, fsf) ==
    IF e_psn = <<>> THEN ff \o <<"-">> \o fsf
    ELSE IF e_psn = <<"a">> THEN ff
    ELSE e_psn

\* lines 212-213: the postScriptName of a record with resolved family ff and
\* subfamily fsf
psn_of(e_psn, ff, fsf) ==
    IF e_psn = <<>> THEN RemoveSpaces(ff \o <<"-">> \o fsf)
    ELSE IF e_psn = <<"a">> THEN RemoveSpaces(ff)
    ELSE e_psn

\* the two directories taken for each other
url_of_swapped(e_url, psn) ==
    IF e_url = <<>> THEN <<"gf/">> \o psn \o <<".otf">>
    ELSE IF e_url = <<"a">> THEN <<"fs/">> \o psn \o <<".otf">>
    ELSE e_url

\* lines 214-215: the sourcePath of a record with postScriptName psn
url_of(e_url, psn) ==
    IF e_url = <<>> THEN <<"fs/">> \o psn \o <<".otf">>
    ELSE IF e_url = <<"a">> THEN <<"gf/">> \o psn \o <<".otf">>
    ELSE e_url

\* the record decoded from entry e after a record with the given fields
Font(e, prev_ff, prev_fsf, prev_flg, prev_cat) ==
    LET ff == Or(e.ff, prev_ff)
        fsf == Or(e.fsf, prev_fsf)
        psn == psn_of(e.psn, ff, fsf)
    IN  [ff |-> ff, fsf |-> fsf, psn |-> psn,
         flg |-> IntOf(Or(e.flg, prev_flg)), cat |-> IntOf(Or(e.cat, prev_cat)),
         url |-> url_of(e.url, psn)]

\* the loop without its last line: every record is decoded against the defaults
RECURSIVE decompress_no_carry(_, _, _, _, _, _)
decompress_no_carry(flist, i, prev_ff, prev_fsf, prev_flg, prev_cat) ==
    IF i > Len(flist) THEN <<>>
    ELSE <<Font(flist[i], prev_ff, prev_fsf, prev_flg, prev_cat)>>
         \o decompress_no_carry(flist, i + 1, prev_ff, prev_fsf, prev_flg, prev_cat)

\* the loop of decompress_font_list from entry i on
RECURSIVE decompress_from(_, _, _, _, _, _)
decompress_from(flist, i, prev_ff, prev_fsf, prev_flg, prev_cat) ==
    IF i > Len(flist) THEN <<>>
    ELSE LET e == flist[i]
         IN  <<Font(e, prev_ff, prev_fsf, prev_flg, prev_cat)>>
             \o decompress_from(flist, i + 1, Or(e.ff, prev_ff), Or(e.fsf, prev_fsf),
                                Or(e.flg, prev_flg), Or(e.cat, prev_cat))

decompress_font_list(flist) == decompress_from(flist, 1, <<>>, <<>>, <<"0">>, <<"0">>)

\* os.path.join(LOCAL_ROOT, "rsrc/fonts", font.url)
FontPath(font) == <<"rsrc/fonts/">> \o font.url

\* font.psn == "DejaVuSans" or font.psn.startswith("DejaVuSans-")
IsDejaVu(font) ==
    \/ font.psn = <<"DejaVu", "Sans">>
    \/ Len(font.psn) >= 3 /\ Prefix(font.psn, 3) = <<"DejaVu", "Sans", "-">>

\* json.dump of the decoded records
RECURSIVE ManifestText(_)
ManifestText(fonts) ==
    IF fonts = <<>> THEN <<>>
    ELSE fonts[1].psn \o <<",">> \o ManifestText(Tail(fonts))

\* the tree after generate_font_manifest(db)
generate_font_manifest(d, mapping) ==
    IF lacks_fonts(mapping) THEN d
    ELSE WriteFile(d, FONT_MANIFEST, ManifestText(decompress_font_list(mapping["FNTS"].list)))

\* download_default_fonts: the DejaVu records of the catalog
dejavu_fonts(mapping) == SelectSeq(decompress_font_list(mapping["FNTS"].list), IsDejaVu)

\* every record submitted, its file on disk or not
fonts_to_download_all(d, mapping) == decompress_font_list(mapping["FNTS"].list)

\* update_fonts: the records whose local file does not exist
fonts_to_download(d, mapping) ==
    SelectSeq(decompress_font_list(mapping["FNTS"].list), LAMBDA f : FontPath(f) \notin DOMAIN d)

\* the font files of a tree
font_files(d) == [p \in {q \in DOMAIN d : q[1] = "rsrc/fonts/"} |-> d[p]]

\* a pool that starts one worker too many
worker_free_one_more(pool) == Cardinality(pool) <= MAX_FONT_WORKERS

\* ThreadPoolExecutor(max_workers=MAX_FONT_WORKERS): a worker is idle or can
\* still be started
worker_free(pool) == Cardinality(pool) < MAX_FONT_WORKERS

\* the executor left as soon as nothing is queued
executor_done_queue_only(queue, pool) == queue = <<>>

\* the as_completed loop and the end of the with block: every future is done
executor_done(queue, pool) == queue = <<>> /\ pool = {}

\* the tree after download_font_worker(font): the body is written after a 200
\* answer, and every exception is caught
download_font_worker(d, font, ok) ==
    IF ok THEN WriteFile(d, FontPath(font), <<"chunk">>) ELSE d

\* ------------------------------------------------------------------ templates

\* a descriptor of the manifest's list: the file name and the local directory
TplName(t) == CASE t = "a.psd|imgur.com" -> "a.psd" [] t = "b.psd|" -> "b.psd"

\* 'psdshared' if "imgur.com" in tpl_data[4] else 'pp-resources'
TplSubdir(t) == IF t = "a.psd|imgur.com" THEN "psdshared/" ELSE "pp-resources/"

TplLocal(t) == <<"templates/file/", TplSubdir(t), TplName(t)>>

\* the template files a tree can hold: the two the manifests name and one none names
TemplateFiles ==
    {<<"templates/file/", "psdshared/", "a.psd">>,
     <<"templates/file/", "pp-resources/", "b.psd">>,
     <<"templates/file/", "pp-resources/", "c.psd">>}

\* glob(LOCAL_ROOT/templates/file/**/*.psd) filtered by isfile
local_template_files(d) == {p \in DOMAIN d : p[1] = "templates/file/"}

\* the list read with a default: any JSON object is taken
manifest_readable_any_object(d) ==
    /\ TPLS \in DOMAIN d
    /\ Len(d[TPLS]) >= 2
    /\ d[TPLS][Len(d[TPLS])] = "]}"

\* json.load(f)['list'] succeeds
manifest_readable(d) ==
    /\ TPLS \in DOMAIN d
    /\ Len(d[TPLS]) >= 2
    /\ d[TPLS][1] = "{\"list\":["
    /\ d[TPLS][Len(d[TPLS])] = "]}"

\* templates_db: the local path of every descriptor, in the list's order
manifest_paths(d) ==
    [i \in 1..(Len(d[TPLS]) - 2) |-> TplLocal(d[TPLS][i + 1])]

\* the set difference taken the wrong way round
unused_templates_swapped(d, referenced) == referenced \ local_template_files(d)

\* the referenced set built from file names, which no globbed path equals
unused_templates_by_name(d, referenced) == local_template_files(d) \ {<<p[3]>> : p \in referenced}

\* local_template_files - templates_in_db_paths
unused_templates(d, referenced) == local_template_files(d) \ referenced

RECURSIVE RemoveAll(_, _)
RemoveAll(d, ps) ==
    IF ps = {} THEN d
    ELSE LET p == CHOOSE q \in ps : TRUE IN RemoveAll(RemoveFile(d, p), ps \ {p})

\* ------------------------------------------------------------------ the run

NoCall == [path |-> <<>>, kind |-> "none", existed |-> FALSE, content |-> <<>>]

\* The command line's flags are inputs of a run.  Nothing reads them before
\* lines 331 and 338, and the model draws each where main reads it.
NoFlags == [fonts |-> FALSE, templates |-> FALSE]

\* one call of download_file(remote, local_path) whose GET ends as o
Download(local_path, body, o) ==
    /\ o \in Outcomes(body)
    /\ o.kind # "ok" => faults < MaxFaults
    /\ faults' = IF o.kind = "ok" THEN faults ELSE faults + 1
    /\ disk' = download_file(disk, local_path, body, o)
    /\ last' = [path |-> local_path, kind |-> o.kind,
                existed |-> local_path \in DOMAIN disk,
                content |-> IF local_path \in DOMAIN disk THEN disk[local_path] ELSE <<>>]

\* the check of main with "dbs" left out of the required names
paths_missing_pp_only(dp) == DOMAIN dp = {} \/ "pp" \notin DOMAIN dp

\* main's `not dynamic_paths or not all(k in dynamic_paths for k in ["pp", "dbs"])`
paths_missing(dp) == DOMAIN dp = {} \/ ~({"pp", "dbs"} \subseteq DOMAIN dp)

Ended == {"finished", "aborted", "crashed"}

\* The program is started: on a fresh tree, or on the tree an earlier run left.
StartRun ==
    /\ pc \in {"idle"} \cup Ended
    /\ run < MaxRuns
    /\ run' = run + 1
    /\ args' = NoFlags
    /\ pc' = "index"
    /\ urls_to_download' = <<>>
    /\ idx' = 1
    /\ dynamic_paths' = [n \in {} |-> <<>>]
    /\ db' = NoDb
    /\ result' = <<>>
    /\ last' = NoCall
    /\ phases' = <<>>
    /\ todo' = <<>>
    /\ running' = {}
    /\ templates_db' = <<>>
    /\ before' = {}
    /\ removed' = {}
    /\ rm_failed' = {}
    /\ tpl_result' = <<>>
    /\ index_result' = "none"
    /\ tasks' = <<>>
    /\ attempts' = <<>>
    /\ font_result' = <<>>
    /\ requested' = {}
    /\ fonts_before' = EmptyTree
    /\ UNCHANGED <<site, disk, faults, passes, snap, decoded>>

\* download_core_files, lines 65-67: fetch index.html
DownloadIndex ==
    /\ pc = "index"
    /\ \E o \in Outcomes(site.index) :
          /\ Download(INDEX, site.index, o)
          /\ index_result' = o.kind
          /\ pc' = IF download_file_raises(o) THEN "crashed" ELSE "resolve"
    /\ phases' = Append(phases, "resolve")
    /\ UNCHANGED <<site, run, args, urls_to_download, idx, dynamic_paths, db, result,
                   todo, running, templates_db, before, removed, rm_failed, tpl_result,
                   passes, snap,
                   decoded, tasks, attempts, font_result, requested, fonts_before>>

\* the paths the patterns find in the document, and the batch they extend
found_paths(content) ==
    [name \in {n \in Range(regex_names) : HasMatch(n, content)} |-> re_search(name, content)]

found_items(content) ==
    LET hits == SelectSeq(regex_names, LAMBDA n : HasMatch(n, content))
    IN  [i \in 1..Len(hits) |-> Item(re_search(hits[i], content), re_search(hits[i], content))]

\* download_core_files, lines 69-91: read the local index.html and scan it;
\* without the file the function returns None and main exits
Resolve ==
    /\ pc = "resolve"
    /\ IF INDEX \notin DOMAIN disk
       THEN /\ pc' = "aborted"
            /\ UNCHANGED <<urls_to_download, dynamic_paths>>
       ELSE /\ pc' = "core"
            /\ dynamic_paths' = found_paths(disk[INDEX])
            /\ urls_to_download' = initial_urls \o found_items(disk[INDEX])
    /\ idx' = 1
    /\ last' = NoCall
    /\ UNCHANGED <<site, disk, run, args, faults, db, result, phases, todo, running,
                   templates_db, before, removed, rm_failed, tpl_result, index_result,
                   passes, snap,
                   decoded, tasks, attempts, font_result, requested, fonts_before>>

\* download_core_files, lines 94-96: one item of the sequential batch
DownloadCoreItem ==
    /\ pc = "core"
    /\ idx <= Len(urls_to_download)
    /\ LET item == urls_to_download[idx]
       IN  \E o \in Outcomes(RemoteBody(site, item.remote)) :
              /\ Download(item.local, RemoteBody(site, item.remote), o)
              /\ result' = Append(result, o.kind)
              /\ pc' = IF download_file_raises(o) THEN "crashed" ELSE "core"
    /\ idx' = idx + 1
    /\ phases' = IF idx = 1 THEN Append(phases, "core") ELSE phases
    /\ UNCHANGED <<site, run, args, urls_to_download, dynamic_paths, db,
                   todo, running, templates_db, before, removed, rm_failed, tpl_result, index_result,
                   passes, snap,
                   decoded, tasks, attempts, font_result, requested, fonts_before>>

\* main with apply_patches called straight after the check of the paths
CheckPaths_then_patch ==
    /\ pc = "core"
    /\ idx > Len(urls_to_download)
    /\ pc' = IF paths_missing(dynamic_paths) THEN "aborted" ELSE "patch"
    /\ last' = NoCall
    /\ UNCHANGED <<site, disk, run, args, faults, urls_to_download, idx, dynamic_paths,
                   db, result, phases, todo, running, templates_db, before, removed,
                   rm_failed, tpl_result, index_result,
                   passes, snap,
                   decoded, tasks, attempts, font_result, requested, fonts_before>>

\* main, lines 309-312: the batch is over; exit unless pp and dbs were found
CheckPaths ==
    /\ pc = "core"
    /\ idx > Len(urls_to_download)
    /\ pc' = IF paths_missing(dynamic_paths) THEN "aborted" ELSE "parse_db"
    /\ last' = NoCall
    /\ UNCHANGED <<site, disk, run, args, faults, urls_to_download, idx, dynamic_paths,
                   db, result, phases, todo, running, templates_db, before, removed,
                   rm_failed, tpl_result, index_result,
                   passes, snap,
                   decoded, tasks, attempts, font_result, requested, fonts_before>>

\* main, lines 314-318: parse the database; exit if the result is falsy
ParseDb ==
    /\ pc = "parse_db"
    /\ LET failed == parse_db_fails(disk, dynamic_paths["dbs"])
           mapping == IF failed THEN NoDb ELSE parse_db(disk, dynamic_paths["dbs"])
       IN  /\ db' = mapping
           /\ pc' = IF db_is_falsy(failed, mapping) THEN "aborted" ELSE "manifest"
    /\ phases' = Append(phases, "parse_db")
    /\ last' = NoCall
    /\ UNCHANGED <<site, disk, run, args, faults, urls_to_download, idx, dynamic_paths,
                   result, todo, running, templates_db, before, removed, rm_failed, tpl_result, index_result,
                   passes, snap,
                   decoded, tasks, attempts, font_result, requested, fonts_before>>

\* main, lines 320-321: generate_font_manifest(db)
GenerateFontManifest ==
    /\ pc = "manifest"
    /\ disk' = generate_font_manifest(disk, db)
    /\ phases' = IF lacks_fonts(db) THEN phases ELSE Append(phases, "manifest")
    /\ pc' = "default_fonts"
    /\ last' = NoCall
    /\ UNCHANGED <<site, run, args, faults, urls_to_download, idx, dynamic_paths, db,
                   result, todo, running, templates_db, before, removed, rm_failed, tpl_result, index_result,
                   passes, snap,
                   decoded, tasks, attempts, font_result, requested, fonts_before>>

\* download_default_fonts, lines 221-230: return without the font list, else
\* collect the DejaVu records
DefaultFonts ==
    /\ pc = "default_fonts"
    /\ IF lacks_fonts(db)
       THEN /\ todo' = <<>>
            /\ pc' = "patch"
            /\ phases' = phases
       ELSE /\ todo' = dejavu_fonts(db)
            /\ pc' = IF dejavu_fonts(db) = <<>> THEN "patch" ELSE "default_fonts_dl"
            /\ phases' = Append(phases, "default_fonts")
    /\ requested' = {}
    /\ fonts_before' = font_files(disk)
    /\ last' = NoCall
    /\ UNCHANGED <<site, disk, run, args, faults, urls_to_download, idx, dynamic_paths,
                   db, result, running, templates_db, before, removed, rm_failed, tpl_result, index_result,
                   passes, snap, decoded, tasks, attempts, font_result>>

\* download_default_fonts, lines 232-237: one DejaVu font, fetched if missing
DownloadDefaultFont ==
    /\ pc = "default_fonts_dl"
    /\ todo # <<>>
    /\ LET font == Head(todo)
           next == IF Tail(todo) = <<>> THEN "patch" ELSE "default_fonts_dl"
       IN  IF FontPath(font) \in DOMAIN disk
           THEN /\ pc' = next
                /\ last' = NoCall
                /\ UNCHANGED <<disk, faults, requested>>
           ELSE \E o \in Outcomes(<<"chunk">>) :
                   /\ Download(FontPath(font), <<"chunk">>, o)
                   /\ requested' = requested \cup {FontPath(font)}
                   /\ pc' = IF download_file_raises(o) THEN "crashed" ELSE next
    /\ todo' = Tail(todo)
    /\ UNCHANGED <<site, run, args, urls_to_download, idx, dynamic_paths, db, result,
                   phases, running, templates_db, before, removed, rm_failed, tpl_result, index_result,
                   passes, snap, decoded, tasks, attempts, font_result, fonts_before>>

\* main, lines 326-327: apply_patches(dynamic_paths["pp"])
ApplyPatches ==
    /\ pc = "patch"
    /\ disk' = apply_patches(disk, dynamic_paths["pp"])
    /\ phases' = Append(phases, "patch")
    /\ pc' = "fonts"
    /\ last' = NoCall
    /\ UNCHANGED <<site, run, args, faults, urls_to_download, idx, dynamic_paths, db,
                   result, todo, running, templates_db, before, removed, rm_failed, tpl_result, index_result,
                   passes, snap,
                   decoded, tasks, attempts, font_result, requested, fonts_before>>

\* main, lines 331-336, and update_fonts, lines 254-262: with --fonts and a font
\* list, submit every missing font to the pool, one task per record
UpdateFonts ==
    /\ pc = "fonts"
    /\ args' \in {[args EXCEPT !.fonts = flag] : flag \in BOOLEAN}
    /\ IF ~args'.fonts \/ "FNTS" \notin DOMAIN db
       THEN /\ tasks' = <<>>
            /\ pc' = "templates"
            /\ phases' = phases
       ELSE /\ tasks' = fonts_to_download(disk, db)
            /\ pc' = IF fonts_to_download(disk, db) = <<>> THEN "templates" ELSE "fonts_pool"
            /\ phases' = Append(phases, "fonts")
    /\ todo' = [i \in 1..Len(tasks') |-> i]
    /\ attempts' = [i \in 1..Len(tasks') |-> 0]
    /\ font_result' = [i \in 1..Len(tasks') |-> "pending"]
    /\ requested' = {}
    /\ fonts_before' = font_files(disk)
    /\ last' = NoCall
    /\ UNCHANGED <<site, disk, run, faults, urls_to_download, idx, dynamic_paths,
                   db, result, running, templates_db, before, removed, rm_failed, tpl_result, index_result,
                   passes, snap, decoded>>

\* a free worker of the pool takes the next submitted task
FontTaskStart ==
    /\ pc = "fonts_pool"
    /\ todo # <<>>
    /\ worker_free(running)
    /\ running' = running \cup {Head(todo)}
    /\ attempts' = [attempts EXCEPT ![Head(todo)] = @ + 1]
    /\ todo' = Tail(todo)
    /\ last' = NoCall
    /\ UNCHANGED <<site, disk, pc, run, args, faults, urls_to_download, idx,
                   dynamic_paths, db, result, phases, templates_db, before, removed,
                   rm_failed, tpl_result, index_result,
                   passes, snap, decoded, tasks, font_result, requested, fonts_before>>

\* download_font_worker returns and as_completed yields its future; the
\* executor is left when every task has
FontTaskFinish ==
    /\ pc = "fonts_pool"
    /\ \E task \in running :
          /\ \E ok \in BOOLEAN :
                /\ ~ok => faults < MaxFaults
                /\ faults' = IF ok THEN faults ELSE faults + 1
                /\ disk' = download_font_worker(disk, tasks[task], ok)
                /\ font_result' = [font_result EXCEPT ![task] = IF ok THEN "ok" ELSE "failed"]
          /\ requested' = requested \cup {FontPath(tasks[task])}
          /\ running' = running \ {task}
          /\ pc' = IF executor_done(todo, running \ {task}) THEN "templates" ELSE "fonts_pool"
    /\ last' = NoCall
    /\ UNCHANGED <<site, run, args, urls_to_download, idx, dynamic_paths, db, result,
                   phases, todo, templates_db, before, removed, rm_failed, tpl_result, index_result,
                   passes, snap, decoded, tasks, attempts, fonts_before>>

\* main, lines 338-340, and update_templates, lines 271-283: with --templates,
\* read the manifest; return if it cannot be read, else list its templates
UpdateTemplates ==
    /\ pc = "templates"
    /\ args' \in {[args EXCEPT !.templates = flag] : flag \in BOOLEAN}
    /\ IF ~args'.templates
       THEN /\ pc' = "finished"
            /\ UNCHANGED <<phases, templates_db, todo, before>>
       ELSE /\ phases' = Append(phases, "templates")
            /\ before' = local_template_files(disk)
            /\ IF ~manifest_readable(disk)
               THEN /\ pc' = "finished"
                    /\ UNCHANGED <<templates_db, todo>>
               ELSE /\ templates_db' = manifest_paths(disk)
                    /\ todo' = manifest_paths(disk)
                    /\ pc' = IF manifest_paths(disk) = <<>> THEN "prune" ELSE "templates_dl"
    /\ removed' = {}
    /\ rm_failed' = {}
    /\ tpl_result' = <<>>
    /\ last' = NoCall
    /\ UNCHANGED <<site, disk, run, faults, urls_to_download, idx, dynamic_paths,
                   db, result, running, index_result, passes, snap,
                   decoded, tasks, attempts, font_result, requested, fonts_before>>

\* update_templates, lines 286-287: one template of the manifest
DownloadTemplate ==
    /\ pc = "templates_dl"
    /\ todo # <<>>
    /\ \E o \in Outcomes(<<"chunk">>) :
          /\ Download(Head(todo), <<"chunk">>, o)
          /\ tpl_result' = Append(tpl_result, o.kind)
          /\ pc' = IF download_file_raises(o) THEN "crashed"
                   ELSE IF Tail(todo) = <<>> THEN "prune" ELSE "templates_dl"
    /\ todo' = Tail(todo)
    /\ UNCHANGED <<site, run, args, urls_to_download, idx, dynamic_paths, db, result,
                   phases, running, templates_db, before, removed, rm_failed, index_result,
                   passes, snap,
                   decoded, tasks, attempts, font_result, requested, fonts_before>>

\* the files update_templates' last loop removes, when os.remove fails for `failing`
pruned(d, referenced, failing) == unused_templates(d, referenced) \ failing

\* update_templates, lines 290-298: remove the local templates the manifest
\* does not reference; an os.remove that fails is logged
PruneTemplates ==
    /\ pc = "prune"
    /\ \E failing \in SUBSET unused_templates(disk, Range(templates_db)) :
          /\ faults + Cardinality(failing) <= MaxFaults
          /\ faults' = faults + Cardinality(failing)
          /\ removed' = pruned(disk, Range(templates_db), failing)
          /\ rm_failed' = failing
          /\ disk' = RemoveAll(disk, pruned(disk, Range(templates_db), failing))
    /\ phases' = Append(phases, "prune")
    /\ pc' = "finished"
    /\ last' = NoCall
    /\ UNCHANGED <<site, run, args, urls_to_download, idx, dynamic_paths, db, result,
                   todo, running, templates_db, before, tpl_result, index_result,
                   passes, snap,
                   decoded, tasks, attempts, font_result, requested, fonts_before>>

Next ==
    \/ StartRun
    \/ DownloadIndex
    \/ Resolve
    \/ DownloadCoreItem
    \/ CheckPaths
    \/ ParseDb
    \/ GenerateFontManifest
    \/ DefaultFonts
    \/ DownloadDefaultFont
    \/ ApplyPatches
    \/ UpdateFonts
    \/ FontTaskStart
    \/ FontTaskFinish
    \/ UpdateTemplates
    \/ DownloadTemplate
    \/ PruneTemplates

\* The program on a fresh tree, run and re-run against one website.
Init ==
    /\ site \in Sites
    /\ disk = EmptyTree
    /\ pc = "idle"
    /\ run = 0
    /\ args = NoFlags
    /\ faults = 0
    /\ urls_to_download = <<>>
    /\ idx = 1
    /\ dynamic_paths = [n \in {} |-> <<>>]
    /\ db = NoDb
    /\ result = <<>>
    /\ last = NoCall
    /\ phases = <<>>
    /\ todo = <<>>
    /\ running = {}
    /\ templates_db = <<>>
    /\ before = {}
    /\ removed = {}
    /\ rm_failed = {}
    /\ tpl_result = <<>>
    /\ index_result = "none"
    /\ passes = 0
    /\ snap = EmptyTree
    /\ decoded = <<>>
    /\ tasks = <<>>
    /\ attempts = <<>>
    /\ font_result = <<>>
    /\ requested = {}
    /\ fonts_before = EmptyTree

Spec == Init /\ [][Next]_vars

\* ------------------------------------------------------------------ apply_patches, repeated

\* the contents a patch target can have: the strings its rules look for and
\* the strings they write, in any order
PPTokens == {PORT_CHECK, MIRROR, RSRC, TPL_QUERY, BACKBLAZE, YY, "||true"}

IndexTokens == {GA, GTM, FB_CONNECT, FB_WWW, "#"}

DropboxTokens == {REDIRECT}

PP == <<"code/pp/pp7.js">>

\* the website's tree, unpatched
FreshTree(st) ==
    WriteFile(WriteFile(WriteFile(EmptyTree, PP, RemotePP), INDEX, st.index),
              DROPBOX, RemoteDropbox)

\* trees in which one patch target has arbitrary content
PatchTrees ==
    {WriteFile(FreshTree(BaseSite), PP, c) : c \in SeqsUpTo(PPTokens, MaxContentLen)}
    \cup {WriteFile(FreshTree(BaseSite), INDEX, c) : c \in SeqsUpTo(IndexTokens, MaxContentLen)}
    \cup {WriteFile(FreshTree(BaseSite), DROPBOX, c) : c \in SeqsUpTo(DropboxTokens, MaxContentLen)}
    \cup {RemoveFile(FreshTree(BaseSite), p) : p \in {PP, INDEX, DROPBOX}}

\* apply_patches runs over the tree once more, nothing being downloaded in between
PatchPass ==
    /\ pc = "patch"
    /\ passes < MaxPasses
    /\ disk' = apply_patches(disk, dynamic_paths["pp"])
    /\ passes' = passes + 1
    /\ snap' = IF passes = 0 THEN disk' ELSE snap
    /\ UNCHANGED <<site, pc, run, args, faults, urls_to_download, idx, dynamic_paths,
                   db, result, last, phases, todo, running, templates_db, before,
                   removed, rm_failed, tpl_result, index_result,
                   decoded, tasks, attempts, font_result, requested, fonts_before>>

PatchInit ==
    /\ site = BaseSite
    /\ disk \in PatchTrees
    /\ pc = "patch"
    /\ run = 1
    /\ args = NoFlags
    /\ faults = 0
    /\ urls_to_download = <<>>
    /\ idx = 1
    /\ dynamic_paths = [n \in {"dbs", "pp"} |-> IF n = "pp" THEN PP ELSE <<"code/dbs/DBS7.js">>]
    /\ db = NoDb
    /\ result = <<>>
    /\ last = NoCall
    /\ phases = <<>>
    /\ todo = <<>>
    /\ running = {}
    /\ templates_db = <<>>
    /\ before = {}
    /\ removed = {}
    /\ rm_failed = {}
    /\ tpl_result = <<>>
    /\ index_result = "none"
    /\ passes = 0
    /\ snap = EmptyTree
    /\ decoded = <<>>
    /\ tasks = <<>>
    /\ attempts = <<>>
    /\ font_result = <<>>
    /\ requested = {}
    /\ fonts_before = EmptyTree

PatchSpec == PatchInit /\ [][PatchPass]_vars

\* ------------------------------------------------------------------ find_and_replace, rule by rule

\* every variable but disk, pc, db, faults and dynamic_paths as it is before a
\* phase has run
Untouched ==
    /\ site = BaseSite
    /\ run = 1
    /\ args = NoFlags
    /\ urls_to_download = <<>>
    /\ idx = 1
    /\ result = <<>>
    /\ last = NoCall
    /\ phases = <<>>
    /\ todo = <<>>
    /\ running = {}
    /\ templates_db = <<>>
    /\ before = {}
    /\ removed = {}
    /\ rm_failed = {}
    /\ tpl_result = <<>>
    /\ index_result = "none"
    /\ passes = 0
    /\ snap = EmptyTree
    /\ decoded = <<>>
    /\ tasks = <<>>
    /\ attempts = <<>>
    /\ font_result = <<>>
    /\ requested = {}
    /\ fonts_before = EmptyTree

\* one call of find_and_replace: apply_patches' rule number idx
ApplyRule ==
    /\ pc = "rule"
    /\ idx <= Len(PatchRules(dynamic_paths["pp"]))
    /\ LET rule == PatchRules(dynamic_paths["pp"])[idx]
           exists == rule.file \in DOMAIN disk
       IN  /\ disk' = find_and_replace(disk, rule.file, rule.find, rule.replace)
           /\ last' = [path |-> rule.file,
                       kind |-> IF ~exists THEN "no file"
                                ELSE IF Contains(disk[rule.file], rule.find) THEN "found"
                                ELSE "absent",
                       existed |-> exists,
                       content |-> IF exists THEN disk[rule.file] ELSE <<>>]
    /\ idx' = idx + 1
    /\ UNCHANGED <<site, pc, run, args, faults, urls_to_download, dynamic_paths,
                   db, result, phases, todo, running, templates_db, before,
                   removed, rm_failed, tpl_result, index_result, passes, snap,
                   decoded, tasks, attempts, font_result, requested, fonts_before>>

RuleInit ==
    /\ Untouched
    /\ disk \in PatchTrees
    /\ pc = "rule"
    /\ faults = 0
    /\ dynamic_paths = [n \in {"dbs", "pp"} |-> IF n = "pp" THEN PP ELSE <<"code/dbs/DBS7.js">>]
    /\ db = NoDb

RuleSpec == RuleInit /\ [][ApplyRule]_vars

\* ------------------------------------------------------------------ update_templates alone

\* trees update_templates can find: any manifest file or none, and any of the
\* template files left by earlier runs
TemplateTrees ==
    LET manifests == {WriteFile(EmptyTree, TPLS, m) : m \in TplsDocs} \cup {EmptyTree}
        RECURSIVE AddAll(_, _)
        AddAll(d, ps) ==
            IF ps = {} THEN d
            ELSE LET p == CHOOSE q \in ps : TRUE
                 IN  AddAll(WriteFile(d, p, <<"old">>), ps \ {p})
    IN  {AddAll(m, ps) : m \in manifests, ps \in SUBSET TemplateFiles}

TemplateInit ==
    /\ site = BaseSite
    /\ disk \in TemplateTrees
    /\ pc = "templates"
    /\ run = 1
    /\ args = NoFlags
    /\ faults = 0
    /\ urls_to_download = <<>>
    /\ idx = 1
    /\ dynamic_paths = [n \in {} |-> <<>>]
    /\ db = NoDb
    /\ result = <<>>
    /\ last = NoCall
    /\ phases = <<>>
    /\ todo = <<>>
    /\ running = {}
    /\ templates_db = <<>>
    /\ before = {}
    /\ removed = {}
    /\ rm_failed = {}
    /\ tpl_result = <<>>
    /\ index_result = "none"
    /\ passes = 0
    /\ snap = EmptyTree
    /\ decoded = <<>>
    /\ tasks = <<>>
    /\ attempts = <<>>
    /\ font_result = <<>>
    /\ requested = {}
    /\ fonts_before = EmptyTree

TemplateNext == UpdateTemplates \/ DownloadTemplate \/ PruneTemplates

TemplateSpec == TemplateInit /\ [][TemplateNext]_vars

\* ------------------------------------------------------------------ decompress_font_list alone

\* a database whose font list is flist
FontDb(flist) == [name \in {"FNTS"} |-> [list |-> flist]]

\* compact entries: every combination of an empty or given family and
\* subfamily with the three forms of postScriptName and of sourcePath, and
\* every combination of empty or given flags and category
CompactEntries ==
    {Entry(ff, fsf, psn, <<>>, <<>>, url) :
        ff \in {<<>>, <<"Open", " ", "Sans">>, <<"Noto">>},
        fsf \in {<<>>, <<"Semi", " ", "Bold">>},
        psn \in {<<>>, <<"a">>, <<"Custom">>},
        url \in {<<>>, <<"a">>, <<"x.otf">>}}
    \cup {Entry(<<"Noto">>, <<>>, <<>>, flg, cat, <<>>) :
            flg \in {<<>>, <<"1">>, <<"2">>}, cat \in {<<>>, <<"1">>, <<"2">>}}

\* list(decompress_font_list(db["FNTS"]["list"]))
Decode ==
    /\ pc = "decode"
    /\ decoded' = decompress_font_list(db["FNTS"].list)
    /\ pc' = "decoded"
    /\ UNCHANGED <<site, disk, run, args, faults, urls_to_download, idx, dynamic_paths,
                   db, result, last, phases, todo, running, templates_db, before,
                   removed, rm_failed, tpl_result, index_result, passes, snap,
                   tasks, attempts, font_result, requested, fonts_before>>

DecodeInit ==
    /\ Untouched
    /\ disk = EmptyTree
    /\ pc = "decode"
    /\ faults = 0
    /\ dynamic_paths = [n \in {} |-> <<>>]
    /\ db \in {FontDb(flist) : flist \in SeqsUpTo(CompactEntries, MaxEntries)}

DecodeSpec == DecodeInit /\ [][Decode]_vars

\* ------------------------------------------------------------------ the font phases alone

\* compact entries of a catalog: a DejaVu font, and two records of one family
\* whose sourcePath is derived from the same postScriptName
FontEntries ==
    { Entry(<<"DejaVu", " ", "Sans">>, <<"Bold">>, <<>>, <<"0">>, <<"0">>, <<>>),
      Entry(<<"Open", " ", "Sans">>, <<>>, <<"a">>, <<>>, <<"1">>, <<"a">>),
      Entry(<<"Open", " ", "Sans">>, <<"Bold">>, <<"Open", "Sans">>, <<>>, <<"1">>, <<"a">>) }

\* trees a font phase can find: any of the catalog's font files left by an
\* earlier run
FontTrees(flist) ==
    LET paths == {FontPath(font) : font \in Range(decompress_font_list(flist))}
        RECURSIVE AddAll(_, _)
        AddAll(d, ps) ==
            IF ps = {} THEN d
            ELSE LET p == CHOOSE q \in ps : TRUE
                 IN  AddAll(WriteFile(d, p, <<"old">>), ps \ {p})
    IN  {AddAll(EmptyTree, ps) : ps \in SUBSET paths}

FontInit ==
    /\ Untouched
    /\ \E flist \in SeqsUpTo(FontEntries, MaxEntries) :
          /\ db = FontDb(flist)
          /\ disk \in FontTrees(flist)
    /\ pc \in {"default_fonts", "fonts"}
    /\ faults = 0
    /\ dynamic_paths = [n \in {} |-> <<>>]

FontNext ==
    \/ DefaultFonts
    \/ DownloadDefaultFont
    \/ UpdateFonts
    \/ FontTaskStart
    \/ FontTaskFinish

FontSpec == FontInit /\ [][FontNext]_vars

\* ------------------------------------------------------------------ the pool with more fonts than workers

\* a catalog of distinct fonts, each with its own postScriptName and
\* sourcePath, more than the pool has workers
ManyFonts ==
    [i \in 1..(MAX_FONT_WORKERS + MaxExtraFonts) |->
        Entry(<<"Font">>, <<>>, <<ToString(i)>>, <<>>, <<>>, <<ToString(i)>>)]

\* update_fonts on a tree without fonts, every fetch succeeding
PoolInit ==
    /\ Untouched
    /\ db = FontDb(ManyFonts)
    /\ disk = EmptyTree
    /\ pc = "fonts"
    /\ faults = MaxFaults
    /\ dynamic_paths = [n \in {} |-> <<>>]

PoolNext == UpdateFonts \/ FontTaskStart \/ FontTaskFinish

PoolSpec == PoolInit /\ [][PoolNext]_vars

\* ------------------------------------------------------------------ claims

\* C1: two apply_patches passes in a row over one tree leave every patch target
\* as the first pass left it.  (The claim as stated; the code violates it.)
C1_PatchIdempotent ==
    passes >= 2 =>
        \A p \in PatchTargets(dynamic_paths["pp"]) \cap DOMAIN disk : disk[p] = snap[p]

\* every fetch of this run so far answered 200 in full, answered another status
\* or failed in requests.get: no body was cut short, no exception escaped
CleanFetches ==
    /\ index_result \in {"ok", "http", "transport"}
    /\ \A k \in 1..Len(result) : result[k] \in {"ok", "http", "transport"}

\* C2: a re-run on the tree an earlier run left, whichever of its fetches fail,
\* ends with every patch target that exists holding what one fully successful
\* run produces from the same website.  (The claim as stated; the code violates it.)
C2_RerunConverges ==
    (run >= 2 /\ pc = "finished" /\ CleanFetches) =>
        \A p \in PatchTargets(PP) \cap DOMAIN disk :
            disk[p] = apply_patches(FreshTree(site), PP)[p]

\* the sequential core batch has returned
BatchOver == pc = "core" /\ idx > Len(urls_to_download)

\* C3: in the core batch a fetch that fails with a non-200 status or a transport
\* error stops neither the batch nor the run: the batch ends early only where an
\* exception escaped download_file, and when it returns with no such exception
\* every item was attempted and every item fetched in full is on disk.
C3_FailureIsolation ==
    /\ (pc \in Ended /\ Len(result) < Len(urls_to_download)) =>
          (result # <<>> /\ result[Len(result)] \in Uncaught)
    /\ BatchOver =>
          /\ Len(result) = Len(urls_to_download)
          /\ \A k \in 1..Len(result) :
                result[k] = "ok" =>
                    /\ urls_to_download[k].local \in DOMAIN disk
                    /\ disk[urls_to_download[k].local]
                         = RemoteBody(site, urls_to_download[k].remote)

C3_Witness ==
    /\ BatchOver
    /\ \E k \in 1..Len(result) : \E j \in (k + 1)..Len(result) :
          /\ result[k] \in {"http", "transport"}
          /\ result[j] = "ok"
          /\ disk[urls_to_download[j].local] = RemoteBody(site, urls_to_download[j].remote)

\* C4: a download_file call whose fetch fails leaves a file that existed before
\* the call as it was.  (The claim as stated; the code violates it.)
C4_OverwriteOnSuccess ==
    (last.kind \in SoftFailures /\ last.existed) =>
        (last.path \in DOMAIN disk /\ disk[last.path] = last.content)

\* C5: download_file returns normally whatever makes the item fail: after a
\* call, the run has not ended in an exception.  (The claim as stated; the code
\* violates it.)
C5_NeverThrows == last.kind # "none" => pc # "crashed"

\* index.html was read and holds no match of the database pattern
NoDbsMatch == urls_to_download # <<>> /\ "dbs" \notin DOMAIN dynamic_paths

C7_AbortsWithoutIndex ==
    index_result \in {"http", "transport"} => pc \in {"resolve", "aborted"}

\* update_templates read the manifest and ran to its end
Reconciled == pc = "finished" /\ "prune" \in Range(phases)

\* C8: after update_templates has read the manifest and returned, no removal
\* having failed, every template file on disk is the local path of a manifest
\* entry, and every file there before that the manifest does not reference is gone.
C8_Pruned ==
    (Reconciled /\ rm_failed = {}) =>
        /\ \A p \in DOMAIN disk : p[1] = "templates/file/" => p \in Range(templates_db)
        /\ \A p \in before \ Range(templates_db) : p \notin DOMAIN disk

C8_Witness ==
    /\ Reconciled
    /\ rm_failed = {}
    /\ before \ Range(templates_db) # {}
    /\ before \cap Range(templates_db) # {}
    /\ \A p \in before \ Range(templates_db) : p \notin DOMAIN disk

\* C9: update_templates removes no file a manifest entry references, whether or
\* not its fetch failed: a referenced file there before the call is there after.
C9_KeepsReferenced ==
    /\ removed \cap Range(templates_db) = {}
    /\ \A p \in before \cap Range(templates_db) : p \in DOMAIN disk

C9_Witness ==
    /\ Reconciled
    /\ removed # {}
    /\ \E i \in 1..Len(tpl_result) :
          /\ tpl_result[i] \in SoftFailures
          /\ templates_db[i] \in before
          /\ templates_db[i] \in DOMAIN disk

\* the database file was read and its mapping holds no FNTS
LacksFNTS ==
    /\ "parse_db" \in Range(phases)
    /\ ~parse_db_fails(disk, dynamic_paths["dbs"])
    /\ "FNTS" \notin DOMAIN db

\* C10: when the parsed mapping lacks FNTS the font phases are skipped and the
\* run goes on to the patches and ends normally, here in a run none of whose
\* fetches failed.  (The claim as stated; the code violates it.)
C10_SkipsFontsAndFinishes ==
    (LacksFNTS /\ faults = 0) =>
        /\ Range(phases) \cap {"manifest", "default_fonts", "fonts"} = {}
        /\ pc \notin {"aborted", "crashed"}

\* C11: family, subfamily, flags and category of a decoded record are the
\* entry's own value, or, where the entry leaves the field empty, the value
\* of the record decoded before it ("" and 0 for the first record)
C11_DeltaDecoding ==
    pc = "decoded" =>
        LET flist == db["FNTS"].list
        IN  /\ Len(decoded) = Len(flist)
            /\ \A i \in 1..Len(flist) :
                  /\ decoded[i].ff = IF flist[i].ff # <<>> THEN flist[i].ff
                                     ELSE IF i = 1 THEN <<>> ELSE decoded[i - 1].ff
                  /\ decoded[i].fsf = IF flist[i].fsf # <<>> THEN flist[i].fsf
                                      ELSE IF i = 1 THEN <<>> ELSE decoded[i - 1].fsf
                  /\ decoded[i].flg = IF flist[i].flg # <<>> THEN IntOf(flist[i].flg)
                                      ELSE IF i = 1 THEN 0 ELSE decoded[i - 1].flg
                  /\ decoded[i].cat = IF flist[i].cat # <<>> THEN IntOf(flist[i].cat)
                                      ELSE IF i = 1 THEN 0 ELSE decoded[i - 1].cat

\* a record that inherited a family and flags from the record before it
C11_Witness ==
    /\ pc = "decoded"
    /\ \E i \in 2..Len(decoded) :
          /\ db["FNTS"].list[i].ff = <<>>
          /\ db["FNTS"].list[i].flg = <<>>
          /\ decoded[i].ff # <<>>
          /\ decoded[i].flg # 0

\* C12: an empty postScriptName field gives the record's family, "-" and
\* subfamily with every space removed, the field "a" gives the family with
\* every space removed, and any other field is kept as it is
C12_PostScriptName ==
    pc = "decoded" =>
        \A i \in 1..Len(decoded) :
            LET e == db["FNTS"].list[i]
                font == decoded[i]
            IN  /\ e.psn = <<>> => font.psn = RemoveSpaces(font.ff \o <<"-">> \o font.fsf)
                /\ e.psn = <<"a">> => font.psn = RemoveSpaces(font.ff)
                /\ e.psn \notin {<<>>, <<"a">>} => font.psn = e.psn

\* a name derived from an inherited family and subfamily that contain spaces,
\* and a name derived from the family alone
C12_Witness ==
    /\ pc = "decoded"
    /\ Len(decoded) = 2
    /\ db["FNTS"].list[1].psn = <<"a">>
    /\ decoded[1].psn = <<"Open", "Sans">>
    /\ db["FNTS"].list[2].ff = <<>>
    /\ db["FNTS"].list[2].fsf = <<>>
    /\ db["FNTS"].list[2].psn = <<>>
    /\ decoded[2].psn = <<"Open", "Sans", "-", "Semi", "Bold">>

\* C13: an empty sourcePath field gives "fs/" + postScriptName + ".otf", the
\* field "a" gives "gf/" + postScriptName + ".otf", and any other field is
\* kept as it is
C13_SourcePath ==
    pc = "decoded" =>
        \A i \in 1..Len(decoded) :
            LET e == db["FNTS"].list[i]
                font == decoded[i]
            IN  /\ e.url = <<>> => font.url = <<"fs/">> \o font.psn \o <<".otf">>
                /\ e.url = <<"a">> => font.url = <<"gf/">> \o font.psn \o <<".otf">>
                /\ e.url \notin {<<>>, <<"a">>} => font.url = e.url

\* the two derived forms of the field, each on a derived postScriptName
C13_Witness ==
    /\ pc = "decoded"
    /\ \E i, j \in 1..Len(decoded) :
          /\ db["FNTS"].list[i].url = <<>>
          /\ decoded[i].url = <<"fs/", "Open", "Sans", "-", "Semi", "Bold", ".otf">>
          /\ db["FNTS"].list[j].url = <<"a">>
          /\ db["FNTS"].list[j].psn = <<"a">>
          /\ decoded[j].url = <<"gf/", "Open", "Sans", ".otf">>

\* C14: a call of find_and_replace whose find string does not occur in the
\* target file leaves the file with the content it had and does not raise
C14_NoOpSafety ==
    last.kind = "absent" =>
        /\ last.path \in DOMAIN disk
        /\ disk[last.path] = last.content
        /\ pc = "rule"

\* a rule was applied to a file that holds other text but not its find string
C14_Witness ==
    /\ last.kind = "absent"
    /\ last.content # <<>>
    /\ disk[last.path] = last.content

\* C15: when update_fonts has returned, every submitted task was started
\* once and gave one result, a success with its file written or a failure,
\* whatever the other tasks gave; no task is ever started twice
C15_EveryTaskOnce ==
    /\ \A i \in 1..Len(tasks) : attempts[i] <= 1
    /\ (pc = "templates" /\ "fonts" \in Range(phases)) =>
          \A i \in 1..Len(tasks) :
              /\ attempts[i] = 1
              /\ font_result[i] \in {"ok", "failed"}
              /\ font_result[i] = "ok" =>
                    /\ FontPath(tasks[i]) \in DOMAIN disk
                    /\ disk[FontPath(tasks[i])] = <<"chunk">>

\* update_fonts has returned from a batch in which one task failed and
\* another, started after it, succeeded
C15_Witness ==
    /\ pc = "templates"
    /\ "fonts" \in Range(phases)
    /\ Len(tasks) = 2
    /\ font_result = <<"failed", "ok">>
    /\ FontPath(tasks[1]) # FontPath(tasks[2])

\* C16: no two tasks of one batch write the same local font path, and no two
\* tasks in progress at once have the same local font path
C16_OneWriterPerPath ==
    \A i, j \in 1..Len(tasks) :
        (i # j /\ FontPath(tasks[i]) = FontPath(tasks[j])) =>
            /\ ~(font_result[i] = "ok" /\ font_result[j] = "ok")
            /\ ~({i, j} \subseteq running)

\* C17: at no moment are more than MAX_FONT_WORKERS font tasks in progress
C17_WorkerCap == Cardinality(running) <= MAX_FONT_WORKERS

\* every worker is busy and a task is still waiting for one
C17_Witness ==
    /\ Cardinality(running) = MAX_FONT_WORKERS
    /\ todo # <<>>

\* C19: a font file that was on disk when a font phase started is not
\* requested by the phase and keeps its content
C19_PresentFontsUntouched ==
    \A p \in DOMAIN fonts_before :
        /\ p \notin requested
        /\ p \in DOMAIN disk
        /\ disk[p] = fonts_before[p]

\* update_fonts has fetched a missing font of a catalog another font of which
\* was on disk
C19_Witness ==
    /\ pc = "templates"
    /\ "ok" \in Range(font_result)
    /\ fonts_before # EmptyTree

\* the place of a phase in the order resolve, core-file batch, catalog decode
\* (database parse, font manifest, default fonts), patch, font sync, template
\* sync (downloads, then pruning)
PhaseRank(phase) ==
    CASE phase = "resolve" -> 1
      [] phase = "core" -> 2
      [] phase = "parse_db" -> 3
      [] phase = "manifest" -> 4
      [] phase = "default_fonts" -> 5
      [] phase = "patch" -> 6
      [] phase = "fonts" -> 7
      [] phase = "templates" -> 8
      [] phase = "prune" -> 9

\* C18: the phases of a run start in the order resolve, core-file batch,
\* catalog decode, patch, font sync, template sync; apply_patches starts only
\* once every item of the core batch was fetched and the database parsed, and
\* the optional phases start only once apply_patches has been called
C18_PhaseOrder ==
    /\ \A i, j \in 1..Len(phases) :
          i < j => PhaseRank(phases[i]) < PhaseRank(phases[j])
    /\ "patch" \in Range(phases) =>
          /\ {"resolve", "core", "parse_db"} \subseteq Range(phases)
          /\ idx > Len(urls_to_download)
          /\ Len(result) = Len(urls_to_download)
    /\ (Range(phases) \cap {"fonts", "templates"} # {}) => "patch" \in Range(phases)
    /\ pc \in {"fonts", "fonts_pool", "templates", "templates_dl", "prune"} =>
          "patch" \in Range(phases)

\* a run with both flags went through every phase and finished
C18_Witness ==
    /\ pc = "finished"
    /\ phases = <<"resolve", "core", "parse_db", "manifest", "default_fonts",
                  "patch", "fonts", "templates", "prune">>

\* papi/tpls.json is missing, is not a JSON object, or is an object without
\* the field "list"
UnusableManifest ==
    \/ TPLS \notin DOMAIN disk
    \/ Len(disk[TPLS]) < 2
    \/ disk[TPLS][Len(disk[TPLS])] # "]}"
    \/ disk[TPLS][1] # "{\"list\":["

====
